---- MODULE Spec2Model ----
(***************************************************************************)
(* Model of confiture's two native entry points:                           *)
(*   build_schema (src/src/builder.rs) and hash_files (src/src/hasher.rs). *)
(*                                                                         *)
(* Both fan out one task per list position on the rayon pool, collect      *)
(* (index, payload) pairs, sort them by index and combine sequentially.    *)
(*                                                                         *)
(* Data representation.                                                    *)
(*  - A file's bytes are a sequence over Bytes; the bytes in Chars are     *)
(*    valid one-byte UTF-8 characters, InvalidByte is a byte that makes    *)
(*    the file invalid UTF-8.                                              *)
(*  - Text (a Rust String) is a sequence of text atoms: a character of     *)
(*    Chars, or a non-empty chunk that holds no newline (a literal of the  *)
(*    format string, the displayed path, the displayed io::Error).         *)
(*  - A byte string handled by the hasher is a sequence of byte atoms:     *)
(*    <<"byte", b>> is one raw byte, <<"sha256", m>> is the DigestLen      *)
(*    bytes of the SHA-256 digest of the byte string m.  SHA-256 is the    *)
(*    sha2 crate's; it is modelled as an ideal hash, a digest is equal to  *)
(*    another one exactly when the messages are equal.                     *)
(*  - <<"lowerhex", d>> is the text produced by formatting the bytes d     *)
(*    with {:x}: two lowercase hexadecimal characters per byte.            *)
(***************************************************************************)
EXTENDS Integers, Sequences, FiniteSets, TLC

\* ---------------------------------------------------------------- bounds
MaxFiles == 2       \* longest list of paths passed to a call
MaxLen == 2         \* longest text file on disk, in characters

\* ------------------------------------------------------------- constants
DigestLen == 32     \* output size of Sha256, in bytes

Paths == {"a.sql", "b.sql"}
Chars == {"A", "\n"}
InvalidByte == "0xFF"
Bytes == Chars \cup {InvalidByte}

\* ------------------------------------------------------------ filesystem
SeqsUpTo(S, n) == UNION {[1..m -> S] : m \in 0..n}

Missing == [kind |-> "missing", bytes |-> <<>>]
Directory == [kind |-> "dir", bytes |-> <<>>]
RegularFile(b) == [kind |-> "file", bytes |-> b]

\* the files a path can name: nothing, a directory, a text file, or a file
\* that is not valid UTF-8
FileStates ==
  {Missing, Directory, RegularFile(<<InvalidByte>>)}
    \cup {RegularFile(b) : b \in SeqsUpTo(Chars, MaxLen)}

\* the contents a caller of two consecutive calls writes to its files
TestContents == {<<"A">>, <<"A", "\n">>, <<"A", "A">>}

\* the files the caller of two consecutive calls starts from
WrittenStates == {Missing} \cup {RegularFile(b) : b \in TestContents}

\* a validation that accepts every byte
IsUtf8Lossy(b) == TRUE

\* std::str::from_utf8 as used by fs::read_to_string
IsUtf8(b) == \A j \in 1..Len(b) : b[j] \in Chars

\* File::open: fails on a path that names nothing
FileOpen(f) ==
  IF f.kind = "missing" THEN [ok |-> FALSE, err |-> "NotFound"]
  ELSE [ok |-> TRUE, err |-> ""]

\* Read::read_to_end on an opened file: fails on a directory
ReadToEnd(f) ==
  IF f.kind = "dir" THEN [ok |-> FALSE, err |-> "IsADirectory", buffer |-> <<>>]
  ELSE [ok |-> TRUE, err |-> "", buffer |-> f.bytes]

\* fs::read_to_string: open, read to end, validate UTF-8
ReadToString(f) ==
  IF ~FileOpen(f).ok THEN [ok |-> FALSE, err |-> FileOpen(f).err, text |-> <<>>]
  ELSE IF ~ReadToEnd(f).ok THEN [ok |-> FALSE, err |-> ReadToEnd(f).err, text |-> <<>>]
  ELSE IF ~IsUtf8(ReadToEnd(f).buffer) THEN [ok |-> FALSE, err |-> "InvalidData", text |-> <<>>]
  ELSE [ok |-> TRUE, err |-> "", text |-> ReadToEnd(f).buffer]

\* ------------------------------------------------------------------ text
\* str::ends_with for a suffix of newline characters
EndsWith(s, suffix) ==
  /\ Len(s) >= Len(suffix)
  /\ \A j \in 1..Len(suffix) : s[Len(s) - Len(suffix) + j] = suffix[j]

\* format!("-- Error reading {}: {}\n", path.display(), e)
ErrorMarker(path, e) == <<"-- Error reading ", path, ": ", e, "\n">>

\* a failed read replaced by an empty content
BuildReadOrDefault(path, f) ==
  IF ReadToString(f).ok THEN ReadToString(f).text ELSE <<>>

\* the closure of build_schema's par_iter: content of one file, or the marker
BuildRead(path, f) ==
  IF ReadToString(f).ok THEN ReadToString(f).text
  ELSE ErrorMarker(path, ReadToString(f).err)

\* a content that ends in a newline left as it is
SeparatorUnlessNewline(content) ==
  IF EndsWith(content, <<"\n">>) THEN <<>> ELSE <<"\n", "\n">>

\* a separator pushed without looking at the content
SeparatorAlwaysTwo(content) == <<"\n", "\n">>

\* what the concatenation loop pushes after one content
Separator(content) ==
  IF ~EndsWith(content, <<"\n", "\n">>)
  THEN IF EndsWith(content, <<"\n">>) THEN <<"\n">> ELSE <<"\n", "\n">>
  ELSE <<>>

\* ---------------------------------------------------------------- hashes
RawBytes(b) == [j \in 1..Len(b) |-> <<"byte", b[j]>>]

\* a hasher that starts from a non-empty message
Sha256NewSeeded == <<<<"byte", "A">>>>

\* Sha256::new()
Sha256New == <<>>

\* Digest::update
Sha256Update(hasher, data) == hasher \o data

\* Digest::finalize: the DigestLen bytes of the digest of everything fed
Sha256Finalize(hasher) == <<"sha256", hasher>>

\* format!("{:x}", digest)
LowerHex(digest) == <<"lowerhex", digest>>

RECURSIVE ByteLen(_)
\* number of bytes in a byte string
ByteLen(m) ==
  IF m = <<>> THEN 0
  ELSE (IF Head(m)[1] = "sha256" THEN DigestLen ELSE 1) + ByteLen(Tail(m))

\* number of characters of a formatted digest
HexLen(h) == 2 * ByteLen(<<h[2]>>)

\* a failed open or read hashed as an empty buffer
HashReadLenient(f) ==
  IF FileOpen(f).ok /\ ReadToEnd(f).ok
  THEN [ok |-> TRUE, panic |-> <<>>,
        hash |-> <<Sha256Finalize(Sha256Update(Sha256New, RawBytes(ReadToEnd(f).buffer)))>>]
  ELSE [ok |-> TRUE, panic |-> <<>>, hash |-> <<Sha256Finalize(Sha256New)>>]

\* the buffer handed on instead of its digest
HashReadNoDigest(f) ==
  IF ~FileOpen(f).ok
  THEN [ok |-> FALSE, panic |-> <<"Failed to open file", FileOpen(f).err>>, hash |-> <<>>]
  ELSE IF ~ReadToEnd(f).ok
  THEN [ok |-> FALSE, panic |-> <<"Failed to read file", ReadToEnd(f).err>>, hash |-> <<>>]
  ELSE [ok |-> TRUE, panic |-> <<>>, hash |-> RawBytes(ReadToEnd(f).buffer)]

\* the buffer never fed to the per-file hasher
HashReadNoUpdate(f) ==
  IF ~FileOpen(f).ok
  THEN [ok |-> FALSE, panic |-> <<"Failed to open file", FileOpen(f).err>>, hash |-> <<>>]
  ELSE IF ~ReadToEnd(f).ok
  THEN [ok |-> FALSE, panic |-> <<"Failed to read file", ReadToEnd(f).err>>, hash |-> <<>>]
  ELSE [ok |-> TRUE, panic |-> <<>>, hash |-> <<Sha256Finalize(Sha256New)>>]

\* the closure of hash_files' par_iter: digest of one file, or a panic
HashRead(f) ==
  IF ~FileOpen(f).ok
  THEN [ok |-> FALSE, panic |-> <<"Failed to open file", FileOpen(f).err>>, hash |-> <<>>]
  ELSE IF ~ReadToEnd(f).ok
  THEN [ok |-> FALSE, panic |-> <<"Failed to read file", ReadToEnd(f).err>>, hash |-> <<>>]
  ELSE [ok |-> TRUE, panic |-> <<>>,
        hash |-> <<Sha256Finalize(Sha256Update(Sha256New, RawBytes(ReadToEnd(f).buffer)))>>]

\* --------------------------------------------------------------- sorting
RECURSIVE SetToSeq(_)
SetToSeq(S) ==
  IF S = {} THEN <<>>
  ELSE LET x == CHOOSE y \in S : TRUE IN <<x>> \o SetToSeq(S \ {x})

\* a vector sorted by payload instead of by index
SortByPayload(v) ==
  LET byPayload == SetToSeq({v[m][2] : m \in 1..Len(v)})
  IN [j \in 1..Len(byPayload) |-> <<j - 1, byPayload[j]>>]

\* a vector left in the order in which the tasks completed
SortByIndexSkipped(v) == v

\* sort_by_key(|(i, _)| *i) on a vector whose keys are distinct
SortByIndex(v) ==
  [j \in 1..Len(v) |->
     CHOOSE e \in {v[m] : m \in 1..Len(v)} :
       Cardinality({m \in 1..Len(v) : v[m][1] < e[1]}) = j - 1]

\* ----------------------------------------------------------------- tasks
\* an enumeration that leaves out the first position
TaskIndicesSkipFirst(fl) == 1..(Len(fl) - 1)

\* par_iter().enumerate(): one task per position of the list, 0-based
TaskIndices(fl) == 0..(Len(fl) - 1)

\* a collect that returns while tasks are still outstanding
CollectReadyEarly(outstanding) == TRUE

\* a collect that never returns
CollectReadyNever(outstanding) == FALSE

\* collect() returns when no task is outstanding
CollectReady(outstanding) == outstanding = {}

\* ----------------------------------------------------------------- state
VARIABLES
  fs,               \* the filesystem: what each path names
  op,               \* the entry point being executed
  files,            \* its argument
  pc,               \* "idle", "par_iter", "combine", "done"
  pending,          \* indices whose task has not run
  reads,            \* how often the task of each index has read its file
  contents,         \* build_schema: pairs collected so far
  file_hashes,      \* hash_files: pairs collected so far
  sorted_contents,  \* build_schema: contents after the sort
  sorted_hashes,    \* hash_files: file_hashes after the sort
  pos,              \* number of entries the combine loop has consumed
  output,           \* build_schema: the buffer
  final_hasher,     \* hash_files: bytes fed to the final hasher
  panic,            \* payload of the panic raised by a task, <<>> if none
  result,           \* what the call returned
  prev,             \* the caller's record of its previous call
  written           \* the caller has written a file between its calls

locals == <<op, files, pc, pending, reads, contents, file_hashes, sorted_contents,
            sorted_hashes, pos, output, final_hasher, panic, result>>
vars == <<fs, locals, prev, written>>

NoResult == [kind |-> "none", value |-> <<>>]
Ok(v) == [kind |-> "ok", value |-> v]
Panicked(msg) == [kind |-> "panic", value |-> msg]
NoCall == [called |-> FALSE]

\* state of a caller that is not inside a call
Idle ==
  /\ op = "none" /\ files = <<>> /\ pc = "idle" /\ pending = {}
  /\ reads = <<>>
  /\ contents = <<>> /\ file_hashes = <<>>
  /\ sorted_contents = <<>> /\ sorted_hashes = <<>>
  /\ pos = 0 /\ output = <<>> /\ final_hasher = <<>>
  /\ panic = <<>> /\ result = NoResult

Init ==
  /\ fs \in [Paths -> FileStates]
  /\ Idle
  /\ prev = NoCall
  /\ written = FALSE

InitTwice ==
  /\ fs \in [Paths -> WrittenStates]
  /\ Idle
  /\ prev = NoCall
  /\ written = FALSE

\* --------------------------------------------------------------- actions
\* entry into build_schema or hash_files: the locals are created and one
\* task per list position is handed to the pool
Call(o, fl) ==
  /\ pc = "idle"
  /\ prev.called => o = prev.op
  /\ op' = o
  /\ files' = fl
  /\ pc' = "par_iter"
  /\ pending' = TaskIndices(fl)
  /\ reads' = [i \in 0..(Len(fl) - 1) |-> 0]
  /\ contents' = <<>> /\ file_hashes' = <<>>
  /\ sorted_contents' = <<>> /\ sorted_hashes' = <<>>
  /\ pos' = 0
  /\ output' = <<>>
  /\ final_hasher' = <<>>
  /\ panic' = <<>>
  /\ result' = NoResult
  /\ UNCHANGED <<fs, prev, written>>

\* a worker runs build_schema's closure for index i
BuildTask(i) ==
  /\ pc = "par_iter" /\ op = "build_schema" /\ i \in pending
  /\ contents' = Append(contents, <<i, BuildRead(files[i + 1], fs[files[i + 1]])>>)
  /\ pending' = pending \ {i}
  /\ reads' = [reads EXCEPT ![i] = @ + 1]
  /\ UNCHANGED <<fs, op, files, pc, file_hashes, sorted_contents, sorted_hashes,
                 pos, output, final_hasher, panic, result, prev, written>>

\* a worker runs hash_files' closure for index i; a failed expect panics
HashTask(i) ==
  /\ pc = "par_iter" /\ op = "hash_files" /\ i \in pending
  /\ pending' = pending \ {i}
  /\ reads' = [reads EXCEPT ![i] = @ + 1]
  /\ LET r == HashRead(fs[files[i + 1]])
     IN IF r.ok
        THEN /\ file_hashes' = Append(file_hashes, <<i, r.hash>>)
             /\ panic' = panic
        ELSE /\ file_hashes' = file_hashes
             /\ panic' \in (IF panic = <<>> THEN {r.panic} ELSE {panic, r.panic})
  /\ UNCHANGED <<fs, op, files, pc, contents, sorted_contents, sorted_hashes,
                 pos, output, final_hasher, result, prev, written>>

\* collect() returns once every task has run; the vector is sorted by index
\* (hash_files then creates the final hasher)
BuildSort ==
  /\ pc = "par_iter" /\ op = "build_schema" /\ CollectReady(pending)
  /\ sorted_contents' = SortByIndex(contents)
  /\ pc' = "combine"
  /\ UNCHANGED <<fs, op, files, pending, reads, contents, file_hashes, sorted_hashes,
                 pos, output, final_hasher, panic, result, prev, written>>

HashSort ==
  /\ pc = "par_iter" /\ op = "hash_files" /\ CollectReady(pending) /\ panic = <<>>
  /\ sorted_hashes' = SortByIndex(file_hashes)
  /\ final_hasher' = Sha256New
  /\ pc' = "combine"
  /\ UNCHANGED <<fs, op, files, pending, reads, contents, file_hashes, sorted_contents,
                 pos, output, panic, result, prev, written>>

\* the pool resumes the panic of a task in the caller; tasks that have not
\* started may never run
HashUnwind ==
  /\ pc = "par_iter" /\ op = "hash_files" /\ panic # <<>>
  /\ result' = Panicked(panic)
  /\ pc' = "done"
  /\ UNCHANGED <<fs, op, files, pending, reads, contents, file_hashes, sorted_contents,
                 sorted_hashes, pos, output, final_hasher, panic, prev, written>>

\* one iteration of build_schema's concatenation loop
BuildStep ==
  /\ pc = "combine" /\ op = "build_schema" /\ pos < Len(sorted_contents)
  /\ LET content == sorted_contents[pos + 1][2]
     IN output' = output \o content \o Separator(content)
  /\ pos' = pos + 1
  /\ UNCHANGED <<fs, op, files, pc, pending, reads, contents, file_hashes, sorted_contents,
                 sorted_hashes, final_hasher, panic, result, prev, written>>

\* Ok(output)
BuildReturn ==
  /\ pc = "combine" /\ op = "build_schema" /\ pos = Len(sorted_contents)
  /\ result' = Ok(output)
  /\ pc' = "done"
  /\ UNCHANGED <<fs, op, files, pending, reads, contents, file_hashes, sorted_contents,
                 sorted_hashes, pos, output, final_hasher, panic, prev, written>>

\* one iteration of hash_files' combining loop
HashStep ==
  /\ pc = "combine" /\ op = "hash_files" /\ pos < Len(sorted_hashes)
  /\ final_hasher' = Sha256Update(final_hasher, sorted_hashes[pos + 1][2])
  /\ pos' = pos + 1
  /\ UNCHANGED <<fs, op, files, pc, pending, reads, contents, file_hashes, sorted_contents,
                 sorted_hashes, output, panic, result, prev, written>>

\* Ok(format!("{:x}", final_hasher.finalize()))
HashReturn ==
  /\ pc = "combine" /\ op = "hash_files" /\ pos = Len(sorted_hashes)
  /\ result' = Ok(<<LowerHex(Sha256Finalize(final_hasher))>>)
  /\ pc' = "done"
  /\ UNCHANGED <<fs, op, files, pending, reads, contents, file_hashes, sorted_contents,
                 sorted_hashes, pos, output, final_hasher, panic, prev, written>>

\* the caller keeps the outcome of its first call; the call's locals are gone
Observe ==
  /\ pc = "done" /\ ~prev.called
  /\ prev' = [called |-> TRUE, op |-> op, files |-> files, fs |-> fs, result |-> result]
  /\ op' = "none" /\ files' = <<>> /\ pc' = "idle" /\ pending' = {}
  /\ reads' = <<>>
  /\ contents' = <<>> /\ file_hashes' = <<>>
  /\ sorted_contents' = <<>> /\ sorted_hashes' = <<>>
  /\ pos' = 0 /\ output' = <<>> /\ final_hasher' = <<>>
  /\ panic' = <<>> /\ result' = NoResult
  /\ UNCHANGED <<fs, written>>

\* fs::write(path, content) by the caller between its two calls
Write(p, c) ==
  /\ pc = "idle" /\ prev.called /\ ~written
  /\ fs' = [fs EXCEPT ![p] = RegularFile(c)]
  /\ written' = TRUE
  /\ UNCHANGED <<locals, prev>>

Lists == SeqsUpTo(Paths, MaxFiles)
Indices == 0..(MaxFiles - 1)

Next ==
  \/ \E o \in {"build_schema", "hash_files"}, fl \in Lists : Call(o, fl)
  \/ \E i \in Indices : BuildTask(i)
  \/ \E i \in Indices : HashTask(i)
  \/ BuildSort
  \/ HashSort
  \/ HashUnwind
  \/ BuildStep
  \/ BuildReturn
  \/ HashStep
  \/ HashReturn

NextTwice ==
  \/ Next
  \/ Observe
  \/ \E p \in Paths, c \in TestContents : Write(p, c)

\* the pool keeps running the tasks it holds and the calling thread keeps
\* executing once collect() has returned; every filesystem read returns
Fairness ==
  /\ \A i \in Indices : WF_vars(BuildTask(i))
  /\ \A i \in Indices : WF_vars(HashTask(i))
  /\ WF_vars(BuildSort)
  /\ WF_vars(HashSort)
  /\ WF_vars(HashUnwind)
  /\ WF_vars(BuildStep)
  /\ WF_vars(BuildReturn)
  /\ WF_vars(HashStep)
  /\ WF_vars(HashReturn)

Spec == Init /\ [][Next]_vars
SpecTwice == InitTwice /\ [][NextTwice]_vars
SpecFair == Init /\ [][Next]_vars /\ Fairness

\* ------------------------------------------------------------ properties
Range(s) == {s[j] : j \in 1..Len(s)}

RECURSIVE TrailingNewlines(_)
\* number of newline characters at the end of a text
TrailingNewlines(c) ==
  IF c # <<>> /\ c[Len(c)] = "\n"
  THEN 1 + TrailingNewlines(SubSeq(c, 1, Len(c) - 1))
  ELSE 0

\* the separator the specification prescribes after a content
SpecSep(c) ==
  CASE TrailingNewlines(c) >= 2 -> <<>>
    [] TrailingNewlines(c) = 1 -> <<"\n">>
    [] TrailingNewlines(c) = 0 -> <<"\n", "\n">>

\* the content build_schema has for list position i (0-based): the file's
\* text, or the diagnostic text that stands for it
ContentAt(i) == BuildRead(files[i + 1], fs[files[i + 1]])

RECURSIVE SchemaUpTo(_)
\* concatenation of content and separator over the positions 0..n-1
SchemaUpTo(n) ==
  IF n = 0 THEN <<>>
  ELSE SchemaUpTo(n - 1) \o ContentAt(n - 1) \o SpecSep(ContentAt(n - 1))

\* C1: whatever the order in which the per-file tasks complete, the sequence
\* handed to the combine step has one entry per list position, entry i has
\* index i and carries the payload produced from files[i].
C1_ResultsInIndexOrder ==
  pc \in {"combine", "done"} /\ result.kind # "panic" =>
    /\ op = "build_schema" =>
         /\ Len(sorted_contents) = Len(files)
         /\ \A i \in 0..(Len(files) - 1) :
              /\ sorted_contents[i + 1][1] = i
              /\ sorted_contents[i + 1][2] = BuildRead(files[i + 1], fs[files[i + 1]])
    /\ op = "hash_files" =>
         /\ Len(sorted_hashes) = Len(files)
         /\ \A i \in 0..(Len(files) - 1) :
              /\ sorted_hashes[i + 1][1] = i
              /\ sorted_hashes[i + 1][2] = HashRead(fs[files[i + 1]]).hash

\* two tasks with different payloads completed against the index order
C1_Witness ==
  /\ pc = "combine" /\ op = "build_schema" /\ Len(files) >= 2
  /\ contents[1][1] = 1 /\ contents[2][1] = 0
  /\ contents[1][2] # contents[2][2]

\* C2: build_schema returns the in-order concatenation of each content
\* followed by its separator: nothing after two trailing newlines, one
\* newline after exactly one, two newlines after none.
C2_SchemaIsConcatenation ==
  pc = "done" /\ op = "build_schema" =>
    /\ result = Ok(SchemaUpTo(Len(files)))
    /\ ( /\ files = <<"a.sql", "b.sql">>
         /\ fs["a.sql"] = RegularFile(<<"A">>)
         /\ fs["b.sql"] = RegularFile(<<"A", "A">>) )
       => result.value = <<"A", "\n", "\n", "A", "A", "\n", "\n">>

\* a call over two files, one ending in exactly one newline and one in none
C2_Witness ==
  /\ pc = "done" /\ op = "build_schema" /\ Len(files) = 2
  /\ ReadToString(fs[files[1]]).ok /\ ReadToString(fs[files[2]]).ok
  /\ TrailingNewlines(ContentAt(0)) = 1 /\ Len(ContentAt(0)) = 2
  /\ TrailingNewlines(ContentAt(1)) = 0 /\ Len(ContentAt(1)) >= 1

\* list position i (0-based) names a file hash_files can open and read
Readable(i) == FileOpen(fs[files[i + 1]]).ok /\ ReadToEnd(fs[files[i + 1]]).ok

\* C3: hash_files over a list with a file that cannot be opened or read
\* fails, returns no digest, and its error names the offending path and
\* the cause.
C3_ErrorNamesPath ==
  pc = "done" /\ op = "hash_files"
    /\ (\E i \in 0..(Len(files) - 1) : ~Readable(i)) =>
      /\ result.kind = "panic"
      /\ \E i \in 0..(Len(files) - 1) :
           /\ ~Readable(i)
           /\ files[i + 1] \in Range(result.value)
           /\ HashRead(fs[files[i + 1]]).panic[2] \in Range(result.value)

\* C4: a digest is returned only if every requested file was opened and
\* read, and exactly one per-file digest per index was fed to the final hash.
C4_NoPartialDigest ==
  pc = "done" /\ op = "hash_files" /\ result.kind = "ok" =>
    /\ \A i \in 0..(Len(files) - 1) : Readable(i)
    /\ pending = {}
    /\ Len(final_hasher) = Len(files)
    /\ ByteLen(final_hasher) = DigestLen * Len(files)
    /\ \A i \in 0..(Len(files) - 1) :
         Cardinality({j \in 1..Len(file_hashes) : file_hashes[j][1] = i}) = 1

\* a digest returned for a list of at least two files
C4_Witness ==
  /\ pc = "done" /\ op = "hash_files" /\ result.kind = "ok"
  /\ Len(files) >= 2 /\ files[1] # files[2]

\* where the segment of list position i starts in the output, if every
\* position contributes its content and its separator
SegStart(i) == Len(SchemaUpTo(i))
SegLen(i) == Len(ContentAt(i)) + Len(SpecSep(ContentAt(i)))
SegmentAt(i) == SubSeq(result.value, SegStart(i) + 1, SegStart(i) + SegLen(i))

\* C5: build_schema never fails because of an unreadable file; the
\* position of an unreadable file holds a marker that names the path and
\* the cause, and a readable file contributes its own text and separator
\* whatever the other files are.
C5_UnreadableBecomesMarker ==
  /\ op = "build_schema" => panic = <<>> /\ result.kind # "panic"
  /\ pc = "done" /\ op = "build_schema" =>
       /\ result.kind = "ok"
       /\ Len(result.value) = SegStart(Len(files))
       /\ \A i \in 0..(Len(files) - 1) :
            IF ReadToString(fs[files[i + 1]]).ok
            THEN SegmentAt(i) = fs[files[i + 1]].bytes \o SpecSep(fs[files[i + 1]].bytes)
            ELSE /\ files[i + 1] \in Range(SegmentAt(i))
                 /\ ReadToString(fs[files[i + 1]]).err \in Range(SegmentAt(i))
                 /\ TrailingNewlines(SegmentAt(i)) = 2

\* an unreadable file followed by a readable, non-empty one
C5_Witness ==
  /\ pc = "done" /\ op = "build_schema" /\ Len(files) >= 2
  /\ ~ReadToString(fs[files[1]]).ok
  /\ ReadToString(fs[files[2]]).ok /\ fs[files[2]].bytes # <<>>

RECURSIVE DigestsUpTo(_)
\* the per-file digests of the raw bytes of positions 0..n-1, concatenated
DigestsUpTo(n) ==
  IF n = 0 THEN <<>>
  ELSE DigestsUpTo(n - 1) \o <<<<"sha256", RawBytes(fs[files[n]].bytes)>>>>

RECURSIVE RawUpTo(_)
\* the raw bytes of positions 0..n-1, concatenated
RawUpTo(n) ==
  IF n = 0 THEN <<>> ELSE RawUpTo(n - 1) \o RawBytes(fs[files[n]].bytes)

\* the digest hash_files is to return: the formatted digest of the
\* concatenated per-file digests
TwoLevelDigest == <<<<"lowerhex", <<"sha256", DigestsUpTo(Len(files))>>>>>>

\* the formatted digest of the concatenated raw bytes
FlatDigest == <<<<"lowerhex", <<"sha256", RawUpTo(Len(files))>>>>>>

AllReadableDigest ==
  /\ pc = "done" /\ op = "hash_files"
  /\ \A i \in 0..(Len(files) - 1) : Readable(i)

\* C6 (as amended): when all files are readable, hash_files returns the 64
\* lowercase hexadecimal characters of the SHA-256 digest of the per-file
\* digests of the raw bytes, fed in index order; for a non-empty list this
\* is not the digest of the concatenated raw bytes.
C6_TwoLevelDigest ==
  AllReadableDigest =>
    /\ result.kind = "ok"
    /\ result.value = TwoLevelDigest
    /\ HexLen(result.value[1]) = 64
    /\ final_hasher = DigestsUpTo(Len(files))
    /\ Len(files) >= 1 => result.value # FlatDigest

\* C6 (as stated): the digest returned is the two-level digest and is never
\* the digest of the concatenated raw bytes.
C6_NeverFlatDigest ==
  AllReadableDigest =>
    /\ result.kind = "ok"
    /\ result.value = TwoLevelDigest
    /\ HexLen(result.value[1]) = 64
    /\ result.value # FlatDigest

\* a digest over two files with different bytes
C6_Witness ==
  /\ pc = "done" /\ op = "hash_files" /\ result.kind = "ok"
  /\ Len(files) = 2 /\ fs[files[1]].bytes # fs[files[2]].bytes
  /\ fs[files[1]].bytes # <<>>

\* the second of two hash_files calls has returned a digest, as the first
BothDigests ==
  /\ pc = "done" /\ prev.called /\ op = "hash_files" /\ prev.op = "hash_files"
  /\ result.kind = "ok" /\ prev.result.kind = "ok"

\* the bytes the two calls found at the paths of the second call's list
SameFilesystem == \A p \in Range(files) \cup Range(prev.files) : prev.fs[p] = fs[p]

\* the caller has hashed [f1, f2] and then [f2, f1], f1 and f2 differing
SwappedCalls ==
  /\ BothDigests /\ Len(files) = 2 /\ Len(prev.files) = 2
  /\ prev.files[1] = files[2] /\ prev.files[2] = files[1]
  /\ SameFilesystem
  /\ fs[files[1]].bytes # fs[files[2]].bytes

\* C7: hash_files over two files with different contents gives different
\* digests for the two orders of the list.
C7_OrderSensitive == SwappedCalls => result.value # prev.result.value

C7_Witness == SwappedCalls /\ written = FALSE

\* the caller has hashed a list, changed one of its files, hashed it again
ChangedCalls ==
  /\ BothDigests /\ files = prev.files
  /\ \E p \in Range(files) :
       /\ prev.fs[p].bytes # fs[p].bytes
       /\ \A q \in Range(files) \ {p} : prev.fs[q] = fs[q]

\* C8: changing the content of one file of the list, the order unchanged,
\* changes the digest.
C8_ContentSensitive == ChangedCalls => result.value # prev.result.value

C8_Witness == ChangedCalls /\ written /\ Len(files) = 2 /\ files[1] # files[2]

\* the caller has made the same call twice over an unchanged filesystem
RepeatedCalls ==
  /\ pc = "done" /\ prev.called /\ op = prev.op /\ files = prev.files
  /\ SameFilesystem

\* C9: two calls with the same list over an unchanged filesystem return the
\* same text, respectively the same digest, whatever the scheduling of the
\* tasks of either call.
C9_Deterministic ==
  RepeatedCalls =>
    /\ result.kind = prev.result.kind
    /\ result.kind = "ok" => result.value = prev.result.value

\* a repeated build_schema whose tasks completed against the index order
C9_Witness ==
  /\ RepeatedCalls /\ op = "build_schema" /\ Len(files) = 2
  /\ contents[1][1] = 1 /\ contents[1][2] # contents[2][2]

\* C10: build_schema([]) returns the empty text and hash_files([]) returns
\* the 64 hexadecimal characters of the digest of the empty message.
C10_EmptyList ==
  pc = "done" /\ files = <<>> =>
    /\ op = "build_schema" => result = Ok(<<>>)
    /\ op = "hash_files" =>
         /\ result = Ok(<<<<"lowerhex", <<"sha256", <<>>>>>>>>)
         /\ final_hasher = <<>>
         /\ HexLen(result.value[1]) = 64

C10_Witness == pc = "done" /\ files = <<>> /\ op = "hash_files" /\ result.kind = "ok"

RECURSIVE InOrderFrom(_, _, _)
\* the contents of the regular files at positions i.. occur in the returned
\* text as contiguous, successive substrings starting at offset from or
\* later; with textOnly, only the files that read as UTF-8 text are asked for
InOrderFrom(i, from, textOnly) ==
  IF i >= Len(files) THEN TRUE
  ELSE LET f == fs[files[i + 1]]
       IN IF f.kind # "file" \/ (textOnly /\ ~ReadToString(f).ok)
          THEN InOrderFrom(i + 1, from, textOnly)
          ELSE \E o \in from..(Len(result.value) - Len(f.bytes)) :
                 /\ SubSeq(result.value, o + 1, o + Len(f.bytes)) = f.bytes
                 /\ InOrderFrom(i + 1, o + Len(f.bytes), textOnly)

\* C11 (as amended): the text build_schema returns contains the content of
\* every file that reads as UTF-8 text as a contiguous substring, and these
\* occurrences follow each other in the order of the list.
C11_TextContentsInOrder ==
  pc = "done" /\ op = "build_schema" => InOrderFrom(0, 0, TRUE)

\* C11 (as stated): the text build_schema returns contains the content of
\* every file of the list as a contiguous substring, in the order of the list.
C11_AllContentsInOrder ==
  pc = "done" /\ op = "build_schema" => InOrderFrom(0, 0, FALSE)

\* two different non-empty text files, the longer one first
C11_Witness ==
  /\ pc = "done" /\ op = "build_schema" /\ Len(files) = 2
  /\ ReadToString(fs[files[1]]).ok /\ ReadToString(fs[files[2]]).ok
  /\ Len(fs[files[1]].bytes) > Len(fs[files[2]].bytes)
  /\ fs[files[2]].bytes # <<>>

\* prev.files is files with the paths at two positions exchanged
Exchanged(i, j) ==
  /\ i < j /\ j <= Len(files) /\ Len(prev.files) = Len(files)
  /\ prev.files[i] = files[j] /\ prev.files[j] = files[i]
  /\ \A m \in 1..Len(files) : m \notin {i, j} => prev.files[m] = files[m]

\* the second of two build_schema calls over an unchanged filesystem has
\* returned, its list being the first one's with positions i and j exchanged
ExchangedBuilds(i, j) ==
  /\ pc = "done" /\ prev.called /\ op = "build_schema" /\ prev.op = "build_schema"
  /\ Exchanged(i, j)
  /\ SameFilesystem

\* what the file at position i (1-based) contributes: content and separator
SegmentOf(i) == ContentAt(i - 1) \o SpecSep(ContentAt(i - 1))

\* one text is the beginning of the other
PrefixRelated(s, t) ==
  \A m \in 1..(IF Len(s) < Len(t) THEN Len(s) ELSE Len(t)) : s[m] = t[m]

\* C12 (as amended): exchanging two files of which neither's content with
\* its separator is the beginning of the other's changes the text
\* build_schema returns.
C12_OrderSensitiveSchema ==
  \A i, j \in 1..MaxFiles :
    ExchangedBuilds(i, j) /\ ~PrefixRelated(SegmentOf(i), SegmentOf(j))
      => result.value # prev.result.value

\* C12 (as stated): exchanging two files with different contents changes
\* the text build_schema returns.
C12_AnyDifferentContents ==
  \A i, j \in 1..MaxFiles :
    /\ ExchangedBuilds(i, j)
    /\ ReadToString(fs[files[i]]).ok /\ ReadToString(fs[files[j]]).ok
    /\ fs[files[i]].bytes # fs[files[j]].bytes
    => result.value # prev.result.value

\* two text files exchanged, neither segment the beginning of the other
C12_Witness ==
  /\ ExchangedBuilds(1, 2)
  /\ ReadToString(fs[files[1]]).ok /\ ReadToString(fs[files[2]]).ok
  /\ ~PrefixRelated(SegmentOf(1), SegmentOf(2))

\* number of list positions that name path p
PositionsOf(p) == Cardinality({i \in 0..(Len(files) - 1) : files[i + 1] = p})

RECURSIVE ReadsUpTo(_, _)
\* number of reads of path p caused by the positions 0..n-1
ReadsUpTo(p, n) ==
  IF n = 0 THEN 0
  ELSE ReadsUpTo(p, n - 1) + (IF files[n] = p THEN reads[n - 1] ELSE 0)

\* C13 (as amended): within one call no list position causes more than one
\* read; in a call that returns a value every position has caused exactly
\* one read, so a path is read once per position that names it; and what a
\* call combines is what its own reads found, also after an earlier call.
C13_OneReadPerPosition ==
  /\ pc # "idle" => DOMAIN reads = 0..(Len(files) - 1)
  /\ \A i \in DOMAIN reads : reads[i] <= 1
  /\ pc = "done" /\ result.kind = "ok" =>
       /\ \A i \in DOMAIN reads : reads[i] = 1
       /\ \A p \in Paths : ReadsUpTo(p, Len(files)) = PositionsOf(p)
       /\ \A i \in 0..(Len(files) - 1) :
            /\ op = "build_schema" =>
                 sorted_contents[i + 1][2] = BuildRead(files[i + 1], fs[files[i + 1]])
            /\ op = "hash_files" =>
                 sorted_hashes[i + 1][2] = HashRead(fs[files[i + 1]]).hash

\* C13 (as stated): every list position of a finished call has caused
\* exactly one read.
C13_ExactlyOneRead ==
  pc = "done" => \A i \in 0..(Len(files) - 1) : reads[i] = 1

\* a second call over a list that names one path twice, the file having
\* been rewritten since the first call
C13_Witness ==
  /\ pc = "done" /\ result.kind = "ok" /\ prev.called /\ written
  /\ Len(files) = 2 /\ files[1] = files[2]
  /\ prev.files = files
  /\ prev.fs[files[1]] # fs[files[1]]

\* C14: nothing is appended to the output buffer and no digest is fed to
\* the final hasher before every per-file task has completed, and the
\* combine loop then consumes the results in index order 0, 1, ..., n-1.
C14_CombineAfterAllTasks ==
  /\ pc = "par_iter" => pos = 0 /\ output = <<>> /\ final_hasher = <<>>
  /\ pc = "combine" \/ (pc = "done" /\ result.kind = "ok") =>
       /\ pending = {}
       /\ \A i \in 0..(Len(files) - 1) : reads[i] = 1
       /\ pos <= Len(files)
       /\ op = "build_schema" =>
            /\ Len(contents) = Len(files)
            /\ output = SchemaUpTo(pos)
       /\ op = "hash_files" =>
            /\ Len(file_hashes) = Len(files)
            /\ final_hasher = DigestsUpTo(pos)

\* the loop has consumed the first of two results that had completed
\* against the index order
C14_Witness ==
  /\ pc = "combine" /\ op = "hash_files" /\ Len(files) = 2 /\ pos = 1
  /\ file_hashes[1][1] = 1
  /\ file_hashes[1][2] # file_hashes[2][2]

\* C15: under fair scheduling every call terminates: build_schema returns a
\* text, hash_files returns a digest or fails, also when reads fail.
C15_CallTerminates == (pc = "par_iter") ~> (pc = "done" /\ result.kind \in {"ok", "panic"})

\* a hash_files call that failed on one file while another task was outstanding
C15_Witness ==
  /\ pc = "done" /\ op = "hash_files" /\ result.kind = "panic"
  /\ Len(files) = 2 /\ pending # {}

\* the part of the buffer pushed by iteration i (0-based) of the loop
PushedAt(i) == SubSeq(output, SegStart(i) + 1, SegStart(i + 1))

\* C16: every file, also an empty one and an error marker, and also the
\* last one, contributes a segment that ends with two newlines; the text
\* returned for a non-empty list ends with two newlines.
C16_EverySegmentEndsWithTwoNewlines ==
  /\ pc = "combine" /\ op = "build_schema" =>
       \A i \in 0..(pos - 1) :
         /\ SegStart(i + 1) <= Len(output)
         /\ Len(PushedAt(i)) >= Len(sorted_contents[i + 1][2])
         /\ EndsWith(PushedAt(i), <<"\n", "\n">>)
  /\ pc = "done" /\ op = "build_schema" /\ files # <<>> =>
       /\ result.kind = "ok"
       /\ EndsWith(result.value, <<"\n", "\n">>)
       /\ Len(result.value) = SegStart(Len(files))

\* a list whose last file is empty and whose first is replaced by a marker
C16_Witness ==
  /\ pc = "done" /\ op = "build_schema" /\ Len(files) = 2
  /\ ~ReadToString(fs[files[1]]).ok
  /\ fs[files[2]] = RegularFile(<<>>)

\* C17: a regular file that is not valid UTF-8 is replaced by an error
\* marker in build_schema, its bytes being absent from the text, while
\* hash_files reads it, hashes its raw bytes and returns a digest.
C17_InvalidTextSplitsTheOperations ==
  pc = "done" =>
    \A i \in 0..(Len(files) - 1) :
      fs[files[i + 1]] = RegularFile(<<InvalidByte>>) =>
        /\ op = "build_schema" =>
             /\ result.kind = "ok"
             /\ SegmentAt(i) = ErrorMarker(files[i + 1], "InvalidData") \o <<"\n">>
             /\ InvalidByte \notin Range(result.value)
        /\ op = "hash_files" /\ (\A j \in 0..(Len(files) - 1) : Readable(j)) =>
             /\ result.kind = "ok"
             /\ final_hasher[i + 1] = <<"sha256", <<<<"byte", InvalidByte>>>>>>

\* hash_files has returned a digest over a list holding a file that
\* build_schema cannot read as text
C17_Witness ==
  /\ pc = "done" /\ op = "hash_files" /\ result.kind = "ok" /\ Len(files) = 2
  /\ fs[files[1]] = RegularFile(<<InvalidByte>>)
  /\ ReadToString(fs[files[2]]).ok /\ fs[files[2]].bytes # <<>>

====
